---- MODULE Spec2Model ----
(***************************************************************************)
(* Model of the wallet connection widget of the dev-frontend:              *)
(*   packages/dev-frontend/src/components/WalletConnector.tsx              *)
(*   the connectors module (injectedMetaMaskProvider, injectedTallyProvider)*)
(*                                                                         *)
(* Spec drives connectionReducer with every action from every state that   *)
(* dispatching can produce, starting from the useReducer initial state.    *)
(* ViewSpec is the component: its click handlers, its two effects, what it *)
(* renders, and the wallet library and authorized-connection probe around  *)
(* it as their interface describes them.                                   *)
(***************************************************************************)
EXTENDS Integers, Sequences, FiniteSets, TLC

VARIABLES
  connectionState,  \* the useReducer state of WalletConnector
  console,          \* what the most recent reducer call wrote to the console
  prevState,        \* the state the most recent reducer call was given
  lastAction,       \* the action the most recent reducer call was given
  started,          \* connector of the StartActivating in force, or NoConnector
  trace,            \* the actions dispatched since mount, while recording
  recording,        \* TRUE while trace holds every action dispatched so far
  active,           \* useWeb3React().active
  error,            \* useWeb3React().error
  depsError,        \* dependencies the error effect last ran with, <<>> before mount
  depsActive,       \* dependencies the active effect last ran with, <<>> before mount
  triedAuthorizedConnection,  \* useAuthorizedConnection()
  isMetaMask,       \* detectMetaMask()
  isTally,          \* detectTally()
  inflight,         \* per connector, the activate calls the library has not settled
  lastActivated,    \* connector of the most recent activate call of the view
  cancelled,        \* connector of an attempt cancelled while activating
  event,            \* the handler, effect or library event of the latest step
  calls             \* the library calls made by the latest step

reducerVars ==
  <<connectionState, console, prevState, lastAction, started, trace, recording>>

viewVars ==
  <<active, error, depsError, depsActive, triedAuthorizedConnection, isMetaMask,
    isTally, inflight, lastActivated, cancelled, event, calls>>

vars == <<reducerVars, viewVars>>

\* Most activate calls of one connector left unsettled at a time.
MaxInFlight == 2

\* Longest dispatch history that trace records.
MaxTrace == 4

(***************************************************************************)
(* The connectors module: two connectors, created once.                    *)
(***************************************************************************)
injectedMetaMaskProvider == [supportedChainIds |-> <<1, 3, 4, 5, 42>>]

injectedTallyProvider == [supportedChainIds |-> <<1>>]

Connectors == {injectedMetaMaskProvider, injectedTallyProvider}

NoConnector == [supportedChainIds |-> <<>>]

(***************************************************************************)
(* ConnectionState and ConnectionAction.                                   *)
(***************************************************************************)
Inactive == [type |-> "inactive"]

ConnectedTypes == {"activating", "active", "rejectedByUser", "alreadyPending", "failed"}

ConnectionState ==
  {Inactive} \cup [type : ConnectedTypes, connector : Connectors]

\* Error messages the wallet library may report.
ErrorMessages ==
  { "User rejected the request",
    "Request already pending",
    "Unknown failure",
    "User Rejected",
    "Already Pending, then user rejected" }

ConnectionAction ==
  [type : {"startActivating"}, connector : Connectors]
    \cup [type : {"fail"}, error : [message : ErrorMessages]]
    \cup [type : {"finishActivating", "retry", "cancel", "deactivate"}]

startActivating(c) == [type |-> "startActivating", connector |-> c]

fail(m) == [type |-> "fail", error |-> [message |-> m]]

\* lastAction before anything was dispatched.
NoAction == [type |-> "none"]

\* useWeb3React().error when there is no error
undefined == [undefined |-> TRUE]

Errors == [message : ErrorMessages]

(***************************************************************************)
(* String.prototype.match with a literal, case-insensitive pattern.        *)
(***************************************************************************)
LowerChar(c) ==
  CASE c = "A" -> "a" [] c = "B" -> "b" [] c = "C" -> "c" [] c = "D" -> "d"
    [] c = "E" -> "e" [] c = "F" -> "f" [] c = "G" -> "g" [] c = "H" -> "h"
    [] c = "I" -> "i" [] c = "J" -> "j" [] c = "K" -> "k" [] c = "L" -> "l"
    [] c = "M" -> "m" [] c = "N" -> "n" [] c = "O" -> "o" [] c = "P" -> "p"
    [] c = "Q" -> "q" [] c = "R" -> "r" [] c = "S" -> "s" [] c = "T" -> "t"
    [] c = "U" -> "u" [] c = "V" -> "v" [] c = "W" -> "w" [] c = "X" -> "x"
    [] c = "Y" -> "y" [] c = "Z" -> "z" [] OTHER -> c

RECURSIVE toLowerCase(_)
toLowerCase(s) ==
  IF Len(s) = 0 THEN ""
  ELSE LowerChar(SubSeq(s, 1, 1)) \o toLowerCase(SubSeq(s, 2, Len(s)))

\* s contains the text p
includes(s, p) ==
  \E i \in 1..(Len(s) - Len(p) + 1) : SubSeq(s, i, i + Len(p) - 1) = p

\* message.match(/pattern/i) is truthy; pattern is a lower-case literal
match(message, pattern) == includes(toLowerCase(message), pattern)

(***************************************************************************)
(* connectionReducer, one operator per case of its switch.  A case yields  *)
(* the state it returns, or Break when it leaves the switch.               *)
(***************************************************************************)
Break == [break |-> TRUE]

\* slip: an attempt already under way keeps its connector
caseStartActivating_keepsCurrent(state, action) ==
  [type |-> "activating",
   connector |-> IF state.type = "inactive" THEN action.connector
                                            ELSE state.connector]

caseStartActivating(state, action) ==
  [type |-> "activating", connector |-> action.connector]

\* slip: the default connector is used whatever the state
caseFinishActivating_alwaysDefault(state, action) ==
  [type |-> "active", connector |-> injectedMetaMaskProvider]

caseFinishActivating(state, action) ==
  [type |-> "active",
   connector |-> IF state.type = "inactive" THEN injectedMetaMaskProvider
                                            ELSE state.connector]

\* slip: the two tests in the other order
errorType_pendingFirst(message) ==
  IF match(message, "already pending") THEN "alreadyPending"
  ELSE IF match(message, "user rejected") THEN "rejectedByUser"
  ELSE "failed"

errorType(message) ==
  IF match(message, "user rejected") THEN "rejectedByUser"
  ELSE IF match(message, "already pending") THEN "alreadyPending"
  ELSE "failed"

\* slip: the failure state records the default connector
caseFail_defaultConnector(state, action) ==
  IF state.type # "inactive"
    THEN [type |-> errorType(action.error.message),
          connector |-> injectedMetaMaskProvider]
    ELSE Break

\* slip: no test of the state, the default connector stands in when inactive
caseFail_unguarded(state, action) ==
  [type |-> errorType(action.error.message),
   connector |-> IF state.type = "inactive" THEN injectedMetaMaskProvider
                                            ELSE state.connector]

caseFail(state, action) ==
  IF state.type # "inactive"
    THEN [type |-> errorType(action.error.message), connector |-> state.connector]
    ELSE Break

\* slip: retry re-enters activating with the default connector
caseRetry_defaultConnector(state, action) ==
  IF state.type # "inactive"
    THEN [type |-> "activating", connector |-> injectedMetaMaskProvider]
    ELSE Break

\* slip: no test of the state, the default connector stands in when inactive
caseRetry_unguarded(state, action) ==
  [type |-> "activating",
   connector |-> IF state.type = "inactive" THEN injectedMetaMaskProvider
                                            ELSE state.connector]

caseRetry(state, action) ==
  IF state.type # "inactive"
    THEN [type |-> "activating", connector |-> state.connector]
    ELSE Break

\* slip: only the type is replaced, the connector stays in the state
caseCancel_keepsConnector(state, action) ==
  IF state.type = "inactive" THEN [type |-> "inactive"]
  ELSE [type |-> "inactive", connector |-> state.connector]

\* slip: cancel is only handled while activating
caseCancel_onlyActivating(state, action) ==
  IF state.type = "activating" THEN [type |-> "inactive"] ELSE Break

caseCancel(state, action) == [type |-> "inactive"]

\* slip: deactivate is treated like fail and retry when already inactive
caseDeactivate_guarded(state, action) ==
  IF state.type # "inactive" THEN [type |-> "inactive"] ELSE Break

caseDeactivate(state, action) == [type |-> "inactive"]

switch(state, action) ==
  CASE action.type = "startActivating" -> caseStartActivating(state, action)
    [] action.type = "finishActivating" -> caseFinishActivating(state, action)
    [] action.type = "fail" -> caseFail(state, action)
    [] action.type = "retry" -> caseRetry(state, action)
    [] action.type = "cancel" -> caseCancel(state, action)
    [] action.type = "deactivate" -> caseDeactivate(state, action)
    [] OTHER -> Break

\* console.warn / console.log lines written when the switch is left
ignoring(state, action) ==
  <<"Ignoring connectionReducer action:", action, "  in state:", state>>

\* The reducer: the state it returns and the console lines it writes.
connectionReducer(state, action) ==
  LET returned == switch(state, action) IN
    IF returned # Break
      THEN [state |-> returned, console |-> <<>>]
      ELSE [state |-> state, console |-> ignoring(state, action)]

(***************************************************************************)
(* dispatch: the reducer is applied to the current state.                  *)
(***************************************************************************)
startedAfter(action) ==
  CASE action.type = "startActivating" -> action.connector
    [] action.type \in {"cancel", "deactivate"} -> NoConnector
    [] OTHER -> started

dispatch(action) ==
  LET r == connectionReducer(connectionState, action) IN
    /\ connectionState' = r.state
    /\ console' = r.console
    /\ prevState' = connectionState
    /\ lastAction' = action
    /\ started' = startedAfter(action)
    /\ IF recording /\ Len(trace) < MaxTrace
         THEN trace' = Append(trace, action) /\ recording' = TRUE
         ELSE trace' = <<>> /\ recording' = FALSE

\* useReducer(connectionReducer, { type: "inactive" })
InitReducer ==
  /\ connectionState = Inactive
  /\ console = <<>>
  /\ prevState = Inactive
  /\ lastAction = NoAction
  /\ started = NoConnector
  /\ trace = <<>>

\* The component before its first effects: nothing active, nothing called.
InitView ==
  /\ active = FALSE
  /\ error = undefined
  /\ depsError = <<>>
  /\ depsActive = <<>>
  /\ triedAuthorizedConnection = FALSE
  /\ inflight = [c \in Connectors |-> 0]
  /\ lastActivated = NoConnector
  /\ cancelled = NoConnector
  /\ event = "mount"
  /\ calls = <<>>

Init ==
  /\ InitReducer
  /\ recording = TRUE
  /\ InitView
  /\ isMetaMask = FALSE
  /\ isTally = FALSE

StartActivating == \E c \in Connectors :
  dispatch([type |-> "startActivating", connector |-> c]) /\ UNCHANGED viewVars

Fail == \E m \in ErrorMessages :
  dispatch([type |-> "fail", error |-> [message |-> m]]) /\ UNCHANGED viewVars

FinishActivating == dispatch([type |-> "finishActivating"]) /\ UNCHANGED viewVars

Retry == dispatch([type |-> "retry"]) /\ UNCHANGED viewVars

Cancel == dispatch([type |-> "cancel"]) /\ UNCHANGED viewVars

Deactivate == dispatch([type |-> "deactivate"]) /\ UNCHANGED viewVars

Next ==
  \/ StartActivating
  \/ Fail
  \/ FinishActivating
  \/ Retry
  \/ Cancel
  \/ Deactivate

Spec == Init /\ [][Next]_vars

(***************************************************************************)
(* What WalletConnector renders.                                           *)
(***************************************************************************)
\* slip: the picker needs both wallets
connectButtons_needsBoth ==
  IF isTally /\ isMetaMask
    THEN {"Connect to MetaMask", "Connect to Tally"}
    ELSE {"Connect wallet"}

\* the buttons of the Flex: the picker or the single button
connectButtons ==
  IF isTally \/ isMetaMask
    THEN {"Connect to MetaMask", "Connect to Tally"}
    ELSE {"Connect wallet"}

\* the connector a button's onClick starts activating and activates
buttonConnector(button) ==
  CASE button = "Connect to MetaMask" -> injectedMetaMaskProvider
    [] button = "Connect to Tally" -> injectedTallyProvider
    [] button = "Connect wallet" -> injectedMetaMaskProvider

failedDialog ==
  [title |-> "Failed to connect to your wallet", onCancel |-> TRUE, onRetry |-> TRUE]

activatingDialog ==
  [title |-> "Confirm connection with your wallet", onCancel |-> TRUE, onRetry |-> FALSE]

rejectedByUserDialog ==
  [title |-> "Cancel connection?", onCancel |-> TRUE, onRetry |-> TRUE]

alreadyPendingDialog ==
  [title |-> "Connection already requested", onCancel |-> TRUE, onRetry |-> TRUE]

\* slip: the failure dialog is shown for every state that is not inactive
modals_failedTooOften(state) ==
  (IF state.type # "inactive" THEN {failedDialog} ELSE {})
    \cup (IF state.type = "activating" THEN {activatingDialog} ELSE {})
    \cup (IF state.type = "rejectedByUser" THEN {rejectedByUserDialog} ELSE {})
    \cup (IF state.type = "alreadyPending" THEN {alreadyPendingDialog} ELSE {})

\* slip: the confirmation dialog is never shown
modals_noConfirmation(state) ==
  (IF state.type = "failed" THEN {failedDialog} ELSE {})
    \cup (IF state.type = "rejectedByUser" THEN {rejectedByUserDialog} ELSE {})
    \cup (IF state.type = "alreadyPending" THEN {alreadyPendingDialog} ELSE {})

\* the four conditionally rendered Modal elements
modals(state) ==
  (IF state.type = "failed" THEN {failedDialog} ELSE {})
    \cup (IF state.type = "activating" THEN {activatingDialog} ELSE {})
    \cup (IF state.type = "rejectedByUser" THEN {rejectedByUserDialog} ELSE {})
    \cup (IF state.type = "alreadyPending" THEN {alreadyPendingDialog} ELSE {})

loaderOnly == [loader |-> TRUE, children |-> FALSE, buttons |-> {}, modals |-> {}]

childrenOnly == [loader |-> FALSE, children |-> TRUE, buttons |-> {}, modals |-> {}]

\* slip: the test of the state comes before the test of the probe
render_activeFirst ==
  IF connectionState.type = "active" THEN childrenOnly
  ELSE IF ~triedAuthorizedConnection THEN loaderOnly
  ELSE [loader |-> FALSE, children |-> FALSE,
        buttons |-> connectButtons, modals |-> modals(connectionState)]

\* the element the component returns
render ==
  IF ~triedAuthorizedConnection THEN loaderOnly
  ELSE IF connectionState.type = "active" THEN childrenOnly
  ELSE [loader |-> FALSE, children |-> FALSE,
        buttons |-> connectButtons, modals |-> modals(connectionState)]

\* A Modal covers the page: the buttons under it take no click.
clickableButtons == IF render.modals = {} THEN render.buttons ELSE {}

(***************************************************************************)
(* Effects.  An effect runs after a render whose dependencies differ from  *)
(* those of its last run, the error effect before the active effect, and   *)
(* before any other event is handled.                                      *)
(***************************************************************************)
errorEffectPending == depsError # <<error>>

activeEffectPending == depsActive # <<active>>

effectsPending == errorEffectPending \/ activeEffectPending

\* the error effect of this commit has run, its active effect has not
midCommit == event = "useEffect error" /\ activeEffectPending

(***************************************************************************)
(* The calls into the wallet library.                                      *)
(***************************************************************************)
activateCall(c) == [fn |-> "activate", connector |-> c]

deactivateCall == [fn |-> "deactivate"]

\* activate(c): the attempt is in flight until the library settles it
activate(c) ==
  /\ inflight' = [inflight EXCEPT ![c] = @ + 1]
  /\ lastActivated' = c
  /\ calls' = <<activateCall(c)>>
  /\ UNCHANGED <<active, error>>

\* deactivate(): synchronous, the library is inactive without error after it
deactivate ==
  /\ active' = FALSE
  /\ error' = undefined
  /\ calls' = <<deactivateCall>>
  /\ UNCHANGED <<inflight, lastActivated>>

(***************************************************************************)
(* Event handlers of the rendered elements.                                *)
(***************************************************************************)
onClickConnect(button) ==
  /\ ~effectsPending
  /\ button \in clickableButtons
  /\ inflight[buttonConnector(button)] < MaxInFlight
  /\ dispatch(startActivating(buttonConnector(button)))
  /\ activate(buttonConnector(button))
  /\ cancelled' = NoConnector
  /\ event' = button
  /\ UNCHANGED <<depsError, depsActive, triedAuthorizedConnection, isMetaMask, isTally>>

\* slip: retry activates the default connector
onRetry_activatesDefault ==
  /\ ~effectsPending
  /\ \E d \in render.modals : d.onRetry
  /\ inflight[injectedMetaMaskProvider] < MaxInFlight
  /\ dispatch([type |-> "retry"])
  /\ activate(injectedMetaMaskProvider)
  /\ cancelled' = NoConnector
  /\ event' = "onRetry"
  /\ UNCHANGED <<depsError, depsActive, triedAuthorizedConnection, isMetaMask, isTally>>

onRetry ==
  /\ ~effectsPending
  /\ \E d \in render.modals : d.onRetry
  /\ inflight[connectionState.connector] < MaxInFlight
  /\ dispatch([type |-> "retry"])
  /\ activate(connectionState.connector)
  /\ cancelled' = NoConnector
  /\ event' = "onRetry"
  /\ UNCHANGED <<depsError, depsActive, triedAuthorizedConnection, isMetaMask, isTally>>

onCancel ==
  /\ ~effectsPending
  /\ \E d \in render.modals : d.onCancel
  /\ dispatch([type |-> "cancel"])
  /\ cancelled' = IF connectionState.type = "activating"
                    THEN connectionState.connector ELSE NoConnector
  /\ event' = "onCancel"
  /\ calls' = <<>>
  /\ UNCHANGED <<active, error, inflight, lastActivated, depsError, depsActive,
                 triedAuthorizedConnection, isMetaMask, isTally>>

ClickConnectMetaMask == onClickConnect("Connect to MetaMask")

ClickConnectTally == onClickConnect("Connect to Tally")

ClickConnectWallet == onClickConnect("Connect wallet")

(***************************************************************************)
(* The two effects.                                                        *)
(***************************************************************************)
\* slip: the error effect tries again by itself
EffectError_retries ==
  /\ errorEffectPending
  /\ ~midCommit
  /\ depsError' = <<error>>
  /\ event' = "useEffect error"
  /\ IF error # undefined
       THEN /\ dispatch([type |-> "fail", error |-> error])
            /\ IF lastActivated # NoConnector /\ inflight[lastActivated] < MaxInFlight
                 THEN /\ inflight' = [inflight EXCEPT ![lastActivated] = @ + 1]
                      /\ calls' = <<activateCall(lastActivated)>>
                 ELSE /\ calls' = <<deactivateCall>>
                      /\ UNCHANGED inflight
            /\ active' = FALSE
            /\ error' = undefined
            /\ UNCHANGED lastActivated
       ELSE /\ calls' = <<>>
            /\ UNCHANGED <<reducerVars, active, error, inflight, lastActivated>>
  /\ UNCHANGED <<depsActive, triedAuthorizedConnection, isMetaMask, isTally, cancelled>>

\* slip: the library is left as it is
EffectError_noDeactivate ==
  /\ errorEffectPending
  /\ ~midCommit
  /\ depsError' = <<error>>
  /\ event' = "useEffect error"
  /\ calls' = <<>>
  /\ IF error # undefined
       THEN dispatch([type |-> "fail", error |-> error])
       ELSE UNCHANGED reducerVars
  /\ UNCHANGED <<active, error, inflight, lastActivated>>
  /\ UNCHANGED <<depsActive, triedAuthorizedConnection, isMetaMask, isTally, cancelled>>

EffectError ==
  /\ errorEffectPending
  /\ ~midCommit
  /\ depsError' = <<error>>
  /\ event' = "useEffect error"
  /\ IF error # undefined
       THEN /\ dispatch([type |-> "fail", error |-> error])
            /\ deactivate
       ELSE /\ calls' = <<>>
            /\ UNCHANGED <<reducerVars, active, error, inflight, lastActivated>>
  /\ UNCHANGED <<depsActive, triedAuthorizedConnection, isMetaMask, isTally, cancelled>>

\* slip: only the true branch dispatches
EffectActive_noDeactivate ==
  /\ activeEffectPending
  /\ ~errorEffectPending \/ midCommit
  /\ depsActive' = <<active>>
  /\ event' = "useEffect active"
  /\ calls' = <<>>
  /\ IF active THEN dispatch([type |-> "finishActivating"])
               ELSE UNCHANGED reducerVars
  /\ UNCHANGED <<active, error, depsError, triedAuthorizedConnection, isMetaMask,
                 isTally, inflight, lastActivated, cancelled>>

EffectActive ==
  /\ activeEffectPending
  /\ ~errorEffectPending \/ midCommit
  /\ depsActive' = <<active>>
  /\ event' = "useEffect active"
  /\ calls' = <<>>
  /\ IF active THEN dispatch([type |-> "finishActivating"])
               ELSE dispatch([type |-> "deactivate"])
  /\ UNCHANGED <<active, error, depsError, triedAuthorizedConnection, isMetaMask,
                 isTally, inflight, lastActivated, cancelled>>

(***************************************************************************)
(* The wallet library and the authorized-connection probe.                 *)
(***************************************************************************)
library(name) ==
  /\ ~effectsPending
  /\ event' = name
  /\ calls' = <<>>
  /\ UNCHANGED <<reducerVars, depsError, depsActive, isMetaMask, isTally,
                 lastActivated, cancelled>>

\* an activate call settles: the wallet is connected
ActivateResolves == \E c \in Connectors :
  /\ inflight[c] > 0
  /\ library("activate resolves")
  /\ inflight' = [inflight EXCEPT ![c] = @ - 1]
  /\ active' = TRUE
  /\ error' = undefined
  /\ UNCHANGED triedAuthorizedConnection

\* an activate call settles: it is rejected with an error
ActivateRejects == \E c \in Connectors, e \in Errors :
  /\ inflight[c] > 0
  /\ library("activate rejects")
  /\ inflight' = [inflight EXCEPT ![c] = @ - 1]
  /\ active' = FALSE
  /\ error' = e
  /\ UNCHANGED triedAuthorizedConnection

\* the connected wallet disconnects
ConnectorDeactivates ==
  /\ active
  /\ library("connector deactivates")
  /\ active' = FALSE
  /\ UNCHANGED <<error, inflight, triedAuthorizedConnection>>

\* the connected wallet reports an error
ConnectorError == \E e \in Errors :
  /\ active
  /\ library("connector error")
  /\ active' = FALSE
  /\ error' = e
  /\ UNCHANGED <<inflight, triedAuthorizedConnection>>

\* the probe finds an authorized wallet and connects it
AuthorizedConnects ==
  /\ ~triedAuthorizedConnection
  /\ ~active
  /\ library("authorized connection")
  /\ active' = TRUE
  /\ error' = undefined
  /\ UNCHANGED <<inflight, triedAuthorizedConnection>>

\* the probe has finished
AuthorizedTried ==
  /\ ~triedAuthorizedConnection
  /\ library("tried authorized connection")
  /\ triedAuthorizedConnection' = TRUE
  /\ UNCHANGED <<active, error, inflight>>

ViewInit ==
  /\ InitReducer
  /\ recording = FALSE
  /\ InitView
  /\ isMetaMask \in BOOLEAN
  /\ isTally \in BOOLEAN

ViewNext ==
  \/ ClickConnectMetaMask
  \/ ClickConnectTally
  \/ ClickConnectWallet
  \/ onRetry
  \/ onCancel
  \/ EffectError
  \/ EffectActive
  \/ ActivateResolves
  \/ ActivateRejects
  \/ ConnectorDeactivates
  \/ ConnectorError
  \/ AuthorizedConnects
  \/ AuthorizedTried

ViewSpec == ViewInit /\ [][ViewNext]_vars

(***************************************************************************)
(* Properties of the reducer.                                              *)
(***************************************************************************)
ErrorTypes == {"rejectedByUser", "alreadyPending", "failed"}

\* C1: a fail action given to a state other than inactive yields
\* rejectedByUser, alreadyPending or failed, with the connector of that state.
C1_FailKeepsConnector ==
  (lastAction.type = "fail" /\ prevState.type # "inactive") =>
    /\ connectionState.type \in ErrorTypes
    /\ DOMAIN connectionState = {"type", "connector"}
    /\ connectionState.connector = prevState.connector

C1_Witness ==
  /\ lastAction.type = "fail"
  /\ prevState = [type |-> "active", connector |-> injectedTallyProvider]
  /\ connectionState = [type |-> "failed", connector |-> injectedTallyProvider]

\* C2: cancel and deactivate yield inactive from every state, without a
\* diagnostic; a deactivate that follows a deactivate finds the state inactive
\* and leaves it so.
C2_CancelDeactivateInactive ==
  /\ lastAction.type \in {"cancel", "deactivate"} =>
       connectionState = Inactive /\ console = <<>>
  /\ (/\ recording
      /\ Len(trace) >= 2
      /\ trace[Len(trace) - 1].type = "deactivate"
      /\ trace[Len(trace)].type = "deactivate") =>
       /\ prevState = Inactive
       /\ connectionState = prevState
       /\ console = <<>>

C2_Witness ==
  /\ recording
  /\ trace = <<startActivating(injectedTallyProvider),
               [type |-> "deactivate"], [type |-> "deactivate"]>>
  /\ connectionState = Inactive

\* C3: fail and retry given to the inactive state return it unchanged and
\* write the diagnostic; no other pair of state and action writes one.
C3_IgnoredWhenInactive ==
  /\ (prevState = Inactive /\ lastAction.type \in {"fail", "retry"}) =>
       /\ connectionState = Inactive
       /\ Len(console) = 4
       /\ console[1] = "Ignoring connectionReducer action:"
       /\ console[2] = lastAction
       /\ console[4] = prevState
  /\ Len(console) # 0 =>
       prevState = Inactive /\ lastAction.type \in {"fail", "retry"}

C3_Witness ==
  /\ recording
  /\ Len(trace) = 2
  /\ trace[1].type = "fail"
  /\ trace[2].type = "retry"
  /\ connectionState = Inactive
  /\ Len(console) = 4

\* C4: finishActivating yields active from every state: with
\* injectedMetaMaskProvider from inactive, with the state's connector otherwise.
C4_FinishActivatingActive ==
  lastAction.type = "finishActivating" =>
    /\ connectionState.type = "active"
    /\ prevState = Inactive =>
         connectionState.connector = injectedMetaMaskProvider
    /\ prevState # Inactive =>
         connectionState.connector = prevState.connector

C4_Witness ==
  /\ lastAction.type = "finishActivating"
  /\ prevState = [type |-> "rejectedByUser", connector |-> injectedTallyProvider]
  /\ connectionState = [type |-> "active", connector |-> injectedTallyProvider]

\* C5: the error message decides the failure state, "user rejected" first:
\* a message with "user rejected" in any case gives rejectedByUser, also when
\* it has "already pending" too; otherwise one with "already pending" gives
\* alreadyPending; any other gives failed.
ExpectedErrorType(m) ==
  CASE m = "User rejected the request" -> "rejectedByUser"
    [] m = "User Rejected" -> "rejectedByUser"
    [] m = "Already Pending, then user rejected" -> "rejectedByUser"
    [] m = "Request already pending" -> "alreadyPending"
    [] m = "Unknown failure" -> "failed"

C5_ErrorClassification ==
  (lastAction.type = "fail" /\ prevState.type # "inactive") =>
    connectionState.type = ExpectedErrorType(lastAction.error.message)

C5_Witness ==
  /\ lastAction = fail("Already Pending, then user rejected")
  /\ prevState.type = "activating"
  /\ connectionState.type = "rejectedByUser"

\* C6: retry given to a state other than inactive yields activating with the
\* connector of that state.
C6_RetrySameConnector ==
  (lastAction.type = "retry" /\ prevState.type # "inactive") =>
    connectionState = [type |-> "activating", connector |-> prevState.connector]

C6_Witness ==
  /\ lastAction.type = "retry"
  /\ prevState = [type |-> "active", connector |-> injectedTallyProvider]
  /\ connectionState = [type |-> "activating", connector |-> injectedTallyProvider]

\* C7: startActivating with connector c yields activating with c from every
\* state, replacing the connector of an attempt under way or of an active
\* connection.
C7_StartActivatingReplaces ==
  lastAction.type = "startActivating" =>
    connectionState = [type |-> "activating", connector |-> lastAction.connector]

C7_Witness ==
  /\ lastAction = startActivating(injectedTallyProvider)
  /\ prevState = [type |-> "active", connector |-> injectedMetaMaskProvider]
  /\ connectionState = [type |-> "activating", connector |-> injectedTallyProvider]

\* C8: after startActivating with connector c the state records c through
\* fail, retry and finishActivating, until a cancel, a deactivate or another
\* startActivating; the two scenarios of dispatches from the inactive state
\* pass through the states listed.
Scenario1(walletA) ==
  << startActivating(walletA), fail("User rejected the request"),
     [type |-> "retry"], [type |-> "finishActivating"] >>

Scenario1States(walletA) ==
  << [type |-> "activating", connector |-> walletA],
     [type |-> "rejectedByUser", connector |-> walletA],
     [type |-> "activating", connector |-> walletA],
     [type |-> "active", connector |-> walletA] >>

Scenario2(walletB) ==
  << startActivating(walletB), fail("Request already pending"),
     [type |-> "cancel"] >>

Scenario2States(walletB) ==
  << [type |-> "activating", connector |-> walletB],
     [type |-> "alreadyPending", connector |-> walletB],
     Inactive >>

C8_ConnectorStaysUntilReset ==
  /\ started # NoConnector =>
       /\ connectionState.type # "inactive"
       /\ connectionState.connector = started
  /\ \A w \in Connectors :
       /\ \A k \in 1..Len(Scenario1(w)) :
            (recording /\ trace = SubSeq(Scenario1(w), 1, k)) =>
              connectionState = Scenario1States(w)[k]
       /\ \A k \in 1..Len(Scenario2(w)) :
            (recording /\ trace = SubSeq(Scenario2(w), 1, k)) =>
              connectionState = Scenario2States(w)[k]

C8_Witness ==
  /\ recording
  /\ trace = Scenario1(injectedTallyProvider)
  /\ started = injectedTallyProvider
  /\ connectionState = [type |-> "active", connector |-> injectedTallyProvider]

\* C9: every state reached from inactive is one of the six variants, and it
\* has a connector exactly when it is not inactive.
C9_SixVariants ==
  /\ connectionState.type \in {"inactive"} \cup ConnectedTypes
  /\ ("connector" \in DOMAIN connectionState) <=> (connectionState.type # "inactive")
  /\ DOMAIN connectionState \subseteq {"type", "connector"}

C9_Witness ==
  /\ lastAction.type = "cancel"
  /\ prevState.type = "failed"
  /\ "connector" \in DOMAIN prevState
  /\ DOMAIN connectionState = {"type"}

\* C10: no reached state is a trap: in each a cancel can be dispatched and
\* leads to inactive, and so can a deactivate.
C10_NoTrap ==
  /\ ENABLED (Cancel /\ connectionState' = Inactive)
  /\ ENABLED (Deactivate /\ connectionState' = Inactive)

C10_Witness ==
  /\ lastAction.type = "cancel"
  /\ prevState.type \in ErrorTypes
  /\ connectionState = Inactive
  /\ recording
  /\ Len(trace) = 3

(***************************************************************************)
(* Properties of the view.                                                 *)
(***************************************************************************)
Picker == {"Connect to MetaMask", "Connect to Tally"}

ClickEvents == Picker \cup {"Connect wallet", "onRetry"}

EffectEvents == {"useEffect error", "useEffect active"}

connectionUI == triedAuthorizedConnection /\ connectionState.type # "active"

activating(c) == [type |-> "activating", connector |-> c]

\* C11 as stated: the picker is offered when both wallets are detected, the
\* single "Connect wallet" button when only one or neither is.
C11_PickerNeedsBoth ==
  connectionUI =>
    render.buttons = IF isMetaMask /\ isTally THEN Picker ELSE {"Connect wallet"}

\* C11: the picker is offered when at least one of the two wallets is
\* detected, the single "Connect wallet" button only when neither is; a
\* click on a button is a click on one that was offered.
C11_PickerWhenAnyDetected ==
  /\ connectionUI =>
       /\ (isMetaMask /\ isTally) => render.buttons = Picker
       /\ (isMetaMask /\ ~isTally) => render.buttons = Picker
       /\ (~isMetaMask /\ isTally) => render.buttons = Picker
       /\ (~isMetaMask /\ ~isTally) => render.buttons = {"Connect wallet"}
  /\ event \in Picker => (isMetaMask \/ isTally)
  /\ event = "Connect wallet" => (~isMetaMask /\ ~isTally)

C11_Witness ==
  /\ event = "Connect to Tally"
  /\ isMetaMask
  /\ ~isTally
  /\ connectionState = activating(injectedTallyProvider)

\* C12: a step that calls activate(c) is a step that dispatches
\* startActivating(c) or retry, and the state after it is activating with c.
C12_ActivateWithDispatch ==
  \A i \in 1..Len(calls) :
    calls[i].fn = "activate" =>
      /\ event \in ClickEvents
      /\ lastAction.type \in {"startActivating", "retry"}
      /\ lastAction.type = "startActivating" => lastAction.connector = calls[i].connector
      /\ connectionState = activating(calls[i].connector)
      /\ lastActivated = calls[i].connector

C12_Witness ==
  /\ event = "onRetry"
  /\ lastAction.type = "retry"
  /\ calls = <<activateCall(injectedTallyProvider)>>
  /\ connectionState = activating(injectedTallyProvider)

\* C13: activate is called only by the click on a connect button or on Retry;
\* no effect and no library event starts an attempt, and a failure state
\* changes only by a handler or an effect.
InFlightTotal == inflight[injectedMetaMaskProvider] + inflight[injectedTallyProvider]

C13_NoAutomaticRetry ==
  /\ [](\A i \in 1..Len(calls) : calls[i].fn = "activate" => event \in ClickEvents)
  /\ [][InFlightTotal' > InFlightTotal => event' \in ClickEvents]_vars
  /\ [][(connectionState.type \in ErrorTypes /\ connectionState' # connectionState) =>
          event' \in ClickEvents \cup EffectEvents \cup {"onCancel"}]_vars

C13_Witness ==
  /\ connectionState.type = "failed"
  /\ lastAction.type = "fail"
  /\ ~effectsPending
  /\ InFlightTotal = 0
  /\ lastActivated = injectedTallyProvider

\* C14: what is rendered shows at most one modal, decided by the state: the
\* failure dialog for failed, the confirmation dialog for activating, the
\* rejected dialog for rejectedByUser, the pending dialog for alreadyPending,
\* none for inactive and active; the three retry dialogs have Cancel and
\* Retry, the confirmation dialog has Cancel only.
Titles(ds) == {d.title : d \in ds}

C14_OneModalByState ==
  ~midCommit =>
    LET shown == render.modals IN
      /\ Cardinality(shown) <= 1
      /\ connectionState.type = "failed" =>
           Titles(shown) = {"Failed to connect to your wallet"}
      /\ connectionState.type = "activating" =>
           Titles(shown) = {"Confirm connection with your wallet"}
      /\ connectionState.type = "rejectedByUser" =>
           Titles(shown) = {"Cancel connection?"}
      /\ connectionState.type = "alreadyPending" =>
           Titles(shown) = {"Connection already requested"}
      /\ connectionState.type \in {"inactive", "active"} => shown = {}
      /\ \A d \in shown :
           /\ d.onCancel
           /\ d.onRetry <=> (connectionState.type \in ErrorTypes)

C14_Witness ==
  /\ ~midCommit
  /\ connectionState.type = "alreadyPending"
  /\ render.modals = {alreadyPendingDialog}

\* C15: the children are rendered exactly when the probe has finished and the
\* state is active; before that only the loader is, also when the state is
\* active; after it, in any other state, the connection UI is rendered and
\* the children are not.
C15_ChildrenWhenActive ==
  /\ render.children <=> (triedAuthorizedConnection /\ connectionState.type = "active")
  /\ ~triedAuthorizedConnection =>
       /\ render.loader
       /\ render.buttons = {}
       /\ render.modals = {}
  /\ connectionUI =>
       /\ ~render.loader
       /\ ~render.children
       /\ render.buttons # {}

C15_Witness ==
  /\ ~triedAuthorizedConnection
  /\ connectionState.type = "active"
  /\ render.loader
  /\ ~render.children

lateActive ==
  /\ cancelled # NoConnector
  /\ prevState = Inactive
  /\ event = "useEffect active"
  /\ lastAction.type = "finishActivating"

lateError ==
  /\ cancelled # NoConnector
  /\ prevState = Inactive
  /\ event = "useEffect error"
  /\ calls = <<deactivateCall>>

\* C17 as stated: after a cancel from activating, a late active or error
\* signal changes the state.
C17_LateSignalChangesState ==
  (lateActive \/ lateError) => connectionState # prevState

\* C17: after a cancel from activating, a late active signal is dispatched
\* and makes the state active with injectedMetaMaskProvider; a late error is
\* dispatched as fail and followed by deactivate(), but the reducer ignores
\* it: the state stays inactive and the diagnostic is written.
C17_LateSignalObserved ==
  /\ lateActive =>
       connectionState = [type |-> "active", connector |-> injectedMetaMaskProvider]
  /\ lateError =>
       /\ lastAction.type = "fail"
       /\ connectionState = Inactive
       /\ Len(console) = 4

C17_Witness ==
  /\ lateError
  /\ cancelled = injectedTallyProvider
  /\ connectionState = Inactive
  /\ Len(console) = 4

\* C18: when the state is active its connector is the one most recently
\* passed to activate by the view.
C18_ActiveIsLastActivated ==
  (connectionState.type = "active" /\ lastActivated # NoConnector) =>
    connectionState.connector = lastActivated

\* C19: when no effect is pending the state is active exactly when the
\* library's active flag is true.
C19_StateTracksActive ==
  ~effectsPending => (connectionState.type = "active" <=> active)

C19_Witness ==
  /\ ~effectsPending
  /\ active
  /\ connectionState = [type |-> "active", connector |-> injectedTallyProvider]
  /\ lastAction.type = "finishActivating"

\* C20: an error value is always followed by the error effect, which
\* dispatches fail with it and calls deactivate(), in every state; when the
\* state was active the failure state keeps its connector, is not rendered,
\* and the active effect that follows makes the state inactive.
failedWhileActive ==
  /\ event = "useEffect error"
  /\ lastAction.type = "fail"
  /\ prevState.type = "active"
  /\ connectionState.type \in ErrorTypes

C20_ErrorFailsThenDeactivates ==
  /\ [][error # undefined =>
          /\ event' = "useEffect error"
          /\ lastAction' = [type |-> "fail", error |-> error]
          /\ prevState' = connectionState
          /\ calls' = <<deactivateCall>>
          /\ ~active'
          /\ error' = undefined]_vars
  /\ []((event = "useEffect error" /\ lastAction.type = "fail"
           /\ prevState.type = "active") =>
          /\ failedWhileActive
          /\ connectionState.connector = prevState.connector
          /\ midCommit
          /\ ENABLED EffectActive)
  /\ [][failedWhileActive =>
          /\ event' = "useEffect active"
          /\ lastAction'.type = "deactivate"
          /\ connectionState' = Inactive]_vars

C20_Witness ==
  /\ failedWhileActive
  /\ connectionState = [type |-> "rejectedByUser", connector |-> injectedTallyProvider]

====
